---- MODULE Spec2Model ----
(***************************************************************************)
(* A model of server.py, the Zerodha Kite MCP server: the pydantic request *)
(* models, the tool handlers and the one piece of shared state, the        *)
(* KiteConnect session held in the module-level object `kite`.             *)
(*                                                                         *)
(* Python values are tagged records, so that values of different Python    *)
(* types can be compared: None, int, float, str, bool, list, datetime.     *)
(* A float is one with an integral value.  An enum member that is not      *)
(* reduced to its string value is a value of its own.                      *)
(* A dict (a raw tool input, a model's fields, a keyword-argument set) is  *)
(* a function from field names to such values.  A text (a message) is a    *)
(* sequence of parts: literal pieces and the repr of a formatted value.    *)
(***************************************************************************)
EXTENDS Integers, Sequences, FiniteSets, TLC

VARIABLES
    API_KEY,        \* os.getenv("KITE_API_KEY"), read once at import
    API_SECRET,     \* os.getenv("KITE_API_SECRET"), read once at import
    access_token,   \* kite.access_token, the session token the collaborator holds
    api_key,        \* kite.api_key
    op,             \* the tool invoked last ("none" before the first invocation)
    request,        \* the raw arguments of that invocation
    calls,          \* the collaborator calls that invocation made, in order
    result          \* what that invocation gave back to the transport

vars == <<API_KEY, API_SECRET, access_token, api_key, op, request, calls, result>>

----------------------------------------------------------------------------
(* Bounds of the model. *)

\* Quantities are drawn from -1 .. MaxQuantity.
MaxQuantity == 2
\* trigger_values and orders of a GTT request have 0 .. MaxLegs elements.
MaxLegs == 3
\* A basket holds 0 .. MaxBasket orders.
MaxBasket == 2

----------------------------------------------------------------------------
(* Python values. *)

None == [none |-> TRUE]
IntV(n) == [int |-> n]
FloatV(n) == [float |-> n]
StrV(s) == [str |-> s]
BoolV(b) == [bool |-> b]
ListV(s) == [list |-> s]
DatetimeV(s) == [datetime |-> s]
\* the datetime a unix timestamp stands for
TimestampV(n) == [timestamp |-> n]
\* a member of an Enum class, as distinct from its string value
EnumV(cls, s) == [enum |-> cls, value |-> s]

IsInt(v) == DOMAIN v = {"int"}
IsFloat(v) == DOMAIN v = {"float"}
IsStr(v) == DOMAIN v = {"str"}
IsBool(v) == DOMAIN v = {"bool"}
IsList(v) == DOMAIN v = {"list"}

\* A literal piece of a text, and the repr of a value formatted into a text.
Lit(s) == [lit |-> s]
Repr(v) == [repr |-> v]

\* What an f-string makes of a value: a str is inserted as it is, anything
\* else (a dict) by its repr.
Format(v) == IF IsStr(v) THEN <<Lit(v.str)>> ELSE <<Repr(v)>>

\* text contains the contiguous run of parts sub
Contains(text, sub) ==
    \E i \in 0 .. (Len(text) - Len(sub)) :
        \A j \in 1 .. Len(sub) : text[i + j] = sub[j]

\* d without the keys of ks
Without(d, ks) == [f \in DOMAIN d \ ks |-> d[f]]

----------------------------------------------------------------------------
(* The enumerations. *)

OrderVariety == {"regular", "co", "amo", "iceberg", "auction"}
Exchange == {"NSE", "BSE", "NFO", "CDS", "BFO", "MCX", "BCD"}
TransactionType == {"BUY", "SELL"}
ProductType == {"MIS", "CNC", "NRML", "CO"}
OrderType == {"MARKET", "LIMIT", "SL-M", "SL"}
Validity == {"DAY", "IOC", "TTL"}
PositionType == {"day", "overnight"}
GTTType == {"single", "two-leg"}
ChartInterval == {"minute", "day", "3minute", "5minute", "10minute",
                  "15minute", "30minute", "60minute"}

----------------------------------------------------------------------------
(* Field types and validation: what pydantic does with a raw mapping. *)

TInt == [kind |-> "int"]
TFloat == [kind |-> "float"]
TStr == [kind |-> "str"]
TBool == [kind |-> "bool"]
TDatetime == [kind |-> "datetime"]
TEnum(S) == [kind |-> "enum", values |-> S]
\* an Enum-annotated tool parameter: the handler receives the member itself
TEnumMember(cls, S) == [kind |-> "enum_member", cls |-> cls, values |-> S]
TList(t) == [kind |-> "list", item |-> t]
TModel(schema) == [kind |-> "model", schema |-> schema]

\* A required field, an Optional[...] = None field, a field with a default.
Required(t) == [required |-> TRUE, nullable |-> FALSE, type |-> t, default |-> None]
Optional(t) == [required |-> FALSE, nullable |-> TRUE, type |-> t, default |-> None]
Defaulted(t, d) == [required |-> FALSE, nullable |-> FALSE, type |-> t, default |-> d]

Invalid == [invalid |-> TRUE]

\* ISO 8601 texts (a date alone or a date and time) that parse as a datetime.
IsoDates ==
    {"2024-01-01", "2024-01-15", "2024-01-31", "2024-01-01T09:15:00",
     "2024-01-31T15:30:00"}

\* Texts that parse as a number, with the number.
NumericTexts ==
    ("-1" :> -1) @@ ("0" :> 0) @@ ("1" :> 1) @@ ("2" :> 2) @@ ("3" :> 3)
    @@ ("5" :> 5) @@ ("10" :> 10) @@ ("99" :> 99) @@ ("100" :> 100)
    @@ ("101" :> 101) @@ ("20240101" :> 20240101) @@ ("1704067200" :> 1704067200)

\* Texts that validate as a bool.
TrueTexts == {"1", "on", "t", "true", "y", "yes", "True", "TRUE"}
FalseTexts == {"0", "off", "f", "false", "n", "no", "False", "FALSE"}

\* Lax validation of the scalar types: a numeric text, a bool or an integral
\* float is taken as an int; a numeric text, an int or a bool as a float;
\* 0 / 1 and the usual texts as a bool; an ISO text or a unix timestamp as a
\* datetime.  A str field takes only a str.
AsInt(v) ==
    IF IsInt(v) THEN v
    ELSE IF IsBool(v) THEN IntV(IF v.bool THEN 1 ELSE 0)
    ELSE IF IsFloat(v) THEN IntV(v.float)
    ELSE IF IsStr(v) /\ v.str \in DOMAIN NumericTexts THEN IntV(NumericTexts[v.str])
    ELSE Invalid

AsFloat(v) ==
    IF IsFloat(v) THEN v
    ELSE IF IsInt(v) THEN FloatV(v.int)
    ELSE IF IsBool(v) THEN FloatV(IF v.bool THEN 1 ELSE 0)
    ELSE IF IsStr(v) /\ v.str \in DOMAIN NumericTexts THEN FloatV(NumericTexts[v.str])
    ELSE Invalid

AsBool(v) ==
    IF IsBool(v) THEN v
    ELSE IF IsInt(v) /\ v.int \in {0, 1} THEN BoolV(v.int = 1)
    ELSE IF IsFloat(v) /\ v.float \in {0, 1} THEN BoolV(v.float = 1)
    ELSE IF IsStr(v) /\ v.str \in TrueTexts THEN BoolV(TRUE)
    ELSE IF IsStr(v) /\ v.str \in FalseTexts THEN BoolV(FALSE)
    ELSE Invalid

AsDatetime(v) ==
    IF IsStr(v) /\ v.str \in IsoDates THEN DatetimeV(v.str)
    ELSE IF IsStr(v) /\ v.str \in DOMAIN NumericTexts THEN TimestampV(NumericTexts[v.str])
    ELSE IF IsInt(v) THEN TimestampV(v.int)
    ELSE IF IsFloat(v) THEN TimestampV(v.float)
    ELSE Invalid

RECURSIVE Coerce(_, _)
RECURSIVE Construct(_, _)

\* The value of type t that raw value v validates to, or Invalid.
Coerce(t, v) ==
    CASE t.kind = "int" -> AsInt(v)
      [] t.kind = "float" -> AsFloat(v)
      [] t.kind = "str" -> IF IsStr(v) THEN v ELSE Invalid
      [] t.kind = "bool" -> AsBool(v)
      [] t.kind = "datetime" -> AsDatetime(v)
      [] t.kind = "enum" ->
            \* use_enum_values: the field holds the member's string value
            IF IsStr(v) /\ v.str \in t.values THEN v ELSE Invalid
      [] t.kind = "enum_member" ->
            IF IsStr(v) /\ v.str \in t.values THEN EnumV(t.cls, v.str) ELSE Invalid
      [] t.kind = "list" ->
            IF ~IsList(v) THEN Invalid
            ELSE IF \E i \in 1 .. Len(v.list) : Coerce(t.item, v.list[i]) = Invalid
                 THEN Invalid
                 ELSE ListV([i \in 1 .. Len(v.list) |-> Coerce(t.item, v.list[i])])
      [] t.kind = "model" -> Construct(t.schema, v)

\* Field f of raw does not validate against its declaration fd.
FieldInvalid(fd, raw, f) ==
    IF f \notin DOMAIN raw THEN fd.required
    ELSE IF raw[f] = None THEN ~fd.nullable
    ELSE Coerce(fd.type, raw[f]) = Invalid

\* The model instance a raw mapping validates to (every declared field set,
\* an absent optional one to its default; undeclared keys ignored), or Invalid.
Construct(schema, raw) ==
    IF \E f \in DOMAIN schema : FieldInvalid(schema[f], raw, f) THEN Invalid
    ELSE [f \in DOMAIN schema |->
            IF f \notin DOMAIN raw THEN schema[f].default
            ELSE IF raw[f] = None THEN None
            ELSE Coerce(schema[f].type, raw[f])]

\* model.dict(exclude=..., exclude_none=...), nested models and lists included
RECURSIVE DictValue(_, _)
DictValue(v, exclude_none) ==
    IF IsList(v)
    THEN ListV([i \in 1 .. Len(v.list) |-> DictValue(v.list[i], exclude_none)])
    ELSE IF \E f \in DOMAIN v : f \in {"none", "int", "float", "str", "bool", "datetime", "timestamp", "enum"}
    THEN v
    ELSE LET keep == {f \in DOMAIN v : ~(exclude_none /\ v[f] = None)}
         IN [f \in keep |-> DictValue(v[f], exclude_none)]

Dict(model, exclude, exclude_none) ==
    DictValue(Without(model, exclude), exclude_none)

----------------------------------------------------------------------------
(* The request models. *)

PlaceOrderRequestFields ==
    [variety |-> Required(TEnum(OrderVariety)),
     exchange |-> Required(TEnum(Exchange)),
     tradingsymbol |-> Required(TStr),
     transaction_type |-> Required(TEnum(TransactionType)),
     quantity |-> Required(TInt),
     product |-> Required(TEnum(ProductType)),
     order_type |-> Required(TEnum(OrderType)),
     price |-> Optional(TFloat),
     validity |-> Optional(TEnum(Validity)),
     validity_ttl |-> Optional(TInt),
     disclosed_quantity |-> Optional(TInt),
     trigger_price |-> Optional(TFloat),
     iceberg_legs |-> Optional(TInt),
     iceberg_quantity |-> Optional(TInt),
     auction_number |-> Optional(TInt),
     tag |-> Optional(TStr)]

PlaceOrderRequest(raw) == Construct(PlaceOrderRequestFields, raw)

ModifyOrderRequestFields ==
    [variety |-> Required(TEnum(OrderVariety)),
     order_id |-> Required(TStr),
     parent_order_id |-> Optional(TStr),
     quantity |-> Optional(TInt),
     price |-> Optional(TFloat),
     order_type |-> Optional(TEnum(OrderType)),
     trigger_price |-> Optional(TFloat),
     validity |-> Optional(TEnum(Validity)),
     disclosed_quantity |-> Optional(TInt)]

ModifyOrderRequest(raw) == Construct(ModifyOrderRequestFields, raw)

ConvertPositionRequestFields ==
    [exchange |-> Required(TEnum(Exchange)),
     tradingsymbol |-> Required(TStr),
     transaction_type |-> Required(TEnum(TransactionType)),
     position_type |-> Required(TEnum(PositionType)),
     quantity |-> Required(TInt),
     old_product |-> Required(TEnum(ProductType)),
     new_product |-> Required(TEnum(ProductType))]

ConvertPositionRequest(raw) == Construct(ConvertPositionRequestFields, raw)

GTTOrderParamsFields ==
    [transaction_type |-> Required(TEnum(TransactionType)),
     quantity |-> Required(TInt),
     order_type |-> Required(TEnum(OrderType)),
     product |-> Required(TEnum(ProductType)),
     price |-> Required(TFloat)]

PlaceGTTRequestFields ==
    [trigger_type |-> Required(TEnum(GTTType)),
     tradingsymbol |-> Required(TStr),
     exchange |-> Required(TEnum(Exchange)),
     trigger_values |-> Required(TList(TFloat)),
     last_price |-> Required(TFloat),
     orders |-> Required(TList(TModel(GTTOrderParamsFields)))]

PlaceGTTRequest(raw) == Construct(PlaceGTTRequestFields, raw)

ModifyGTTRequestFields ==
    ("trigger_id" :> Required(TStr)) @@ PlaceGTTRequestFields

ModifyGTTRequest(raw) == Construct(ModifyGTTRequestFields, raw)

BasketMarginRequestFields ==
    [orders |-> Required(TList(TModel(PlaceOrderRequestFields))),
     consider_positions |-> Defaulted(TBool, BoolV(TRUE)),
     mode |-> Optional(TStr)]

BasketMarginRequest(raw) == Construct(BasketMarginRequestFields, raw)

----------------------------------------------------------------------------
(* The module-level configuration and the outcomes of a collaborator call. *)

\* os.getenv(name): the variable's text, or None when it is not set.
Getenv(name) == {None, StrV(name)}

Return(v) == [kind |-> "return", value |-> v]
Raise(exc, message) == [kind |-> "raise", exc |-> exc, message |-> message]
\* The transport found the arguments invalid and never ran the handler body.
ValidationError == [kind |-> "validation_error"]

\* str(e) of a raised exception
StrOf(e) == e.message

\* Failures the broker client raises.
KiteErrors ==
    {Raise("OrderException", <<Lit("insufficient funds")>>),
     Raise("TokenException", <<Lit("Incorrect api_key or access_token.")>>)}

\* A failure whose text names a trigger.
TriggerErrors ==
    {Raise("GeneralException", <<Lit("Trigger "), Lit("12345"), Lit(" not found")>>)}

EmptyDict == [f \in {} |-> None]

\* One call on the kite object: the method, its positional and keyword
\* arguments, the session token the object held then, and how the call ended.
Call(method, pos, kw, token, o) ==
    [method |-> method, pos |-> pos, kw |-> kw, access_token |-> token, outcome |-> o]

\* What one invocation did: its result, its calls, the token it leaves.
Effect(r, cs, token) == [result |-> r, calls |-> cs, access_token |-> token]

\* Arguments that do not validate end the invocation before the body runs.
Rejected(token) == Effect(ValidationError, <<>>, token)

\* A handler without try/except: the collaborator's value or exception as it is.
Passthrough(method, pos, token, o) ==
    Effect(o, <<Call(method, pos, EmptyDict, token, o)>>, token)

\* Guarded with a retry: a failed call is made a second time before giving up.
GuardedWithRetry(method, pos, kw, prefix, token, o) ==
    IF o.kind = "raise"
    THEN Effect(Raise("Exception", <<Lit(prefix)>> \o StrOf(o)),
                <<Call(method, pos, kw, token, o), Call(method, pos, kw, token, o)>>, token)
    ELSE Effect(o, <<Call(method, pos, kw, token, o)>>, token)

\* try: return kite.<method>(...)  except Exception as e: raise Exception(f"<prefix>{str(e)}")
Guarded(method, pos, kw, prefix, token, o) ==
    Effect(IF o.kind = "raise" THEN Raise("Exception", <<Lit(prefix)>> \o StrOf(o)) ELSE o,
           <<Call(method, pos, kw, token, o)>>, token)

----------------------------------------------------------------------------
(* The tools' parameters, as the transport validates them. *)

NoParams == EmptyDict
get_margins_params == [segment |-> Optional(TStr)]
set_access_token_params == [request_token |-> Required(TStr)]
place_order_params == [request |-> Required(TModel(PlaceOrderRequestFields))]
modify_order_params == [request |-> Required(TModel(ModifyOrderRequestFields))]
cancel_order_params ==
    [variety |-> Required(TEnumMember("OrderVariety", OrderVariety)),
     order_id |-> Required(TStr),
     parent_order_id |-> Optional(TStr)]
convert_position_params == [request |-> Required(TModel(ConvertPositionRequestFields))]
place_gtt_params == [request |-> Required(TModel(PlaceGTTRequestFields))]
modify_gtt_params == [request |-> Required(TModel(ModifyGTTRequestFields))]
delete_gtt_params == [trigger_id |-> Required(TStr)]
get_instrument_margins_params == [segment |-> Required(TStr)]
get_basket_margins_params == [request |-> Required(TModel(BasketMarginRequestFields))]
order_id_params == [order_id |-> Required(TStr)]
instruments_params == [instruments |-> Required(TList(TStr))]
get_historical_data_params ==
    [instrument_token |-> Required(TInt),
     from_date |-> Required(TDatetime),
     to_date |-> Required(TDatetime),
     interval |-> Required(TEnumMember("ChartInterval", ChartInterval)),
     continuous |-> Defaulted(TBool, BoolV(FALSE)),
     oi |-> Defaulted(TBool, BoolV(FALSE))]

----------------------------------------------------------------------------
(* The handlers: each from the session token, the raw arguments and the     *)
(* outcome o of the collaborator call to what the invocation did.           *)

get_orders(token, args, o) ==
    IF Construct(NoParams, args) = Invalid THEN Rejected(token)
    ELSE Passthrough("orders", <<>>, token, o)

get_trades(token, args, o) ==
    IF Construct(NoParams, args) = Invalid THEN Rejected(token)
    ELSE Passthrough("trades", <<>>, token, o)

get_positions(token, args, o) ==
    IF Construct(NoParams, args) = Invalid THEN Rejected(token)
    ELSE Passthrough("positions", <<>>, token, o)

get_holdings(token, args, o) ==
    IF Construct(NoParams, args) = Invalid THEN Rejected(token)
    ELSE Passthrough("holdings", <<>>, token, o)

get_margins(token, args, o) ==
    LET a == Construct(get_margins_params, args)
    IN IF a = Invalid THEN Rejected(token)
       ELSE Passthrough("margins", <<a.segment>>, token, o)

get_profile(token, args, o) ==
    IF Construct(NoParams, args) = Invalid THEN Rejected(token)
    ELSE Passthrough("profile", <<>>, token, o)

\* kite.api_key = API_KEY; return kite.login_url()
login_url(token, args, o) ==
    IF Construct(NoParams, args) = Invalid THEN Rejected(token)
    ELSE Passthrough("login_url", <<>>, token, o)

\* set_access_token that drops the session token when generate_session fails.
set_access_token_clearing(token, args, o) ==
    LET a == Construct(set_access_token_params, args)
        gen == Call("generate_session", <<a.request_token, API_SECRET>>, EmptyDict, token, o)
    IN IF a = Invalid THEN Rejected(token)
       ELSE IF o.kind = "raise" THEN Effect(o, <<gen>>, None)
       ELSE IF "access_token" \notin DOMAIN o.value
            THEN Effect(Raise("KeyError", <<Repr(StrV("access_token"))>>), <<gen>>, token)
       ELSE Effect(Return(<<Lit("Access token set successfully.")>>),
                   <<gen, Call("set_access_token", <<o.value.access_token>>, EmptyDict,
                               token, Return(None))>>,
                   o.value.access_token)

\* data = kite.generate_session(request_token, API_SECRET)
\* kite.set_access_token(data["access_token"])
set_access_token(token, args, o) ==
    LET a == Construct(set_access_token_params, args)
        gen == Call("generate_session", <<a.request_token, API_SECRET>>, EmptyDict, token, o)
    IN IF a = Invalid THEN Rejected(token)
       ELSE IF o.kind = "raise" THEN Effect(o, <<gen>>, token)
       ELSE IF "access_token" \notin DOMAIN o.value
            THEN Effect(Raise("KeyError", <<Repr(StrV("access_token"))>>), <<gen>>, token)
       ELSE Effect(Return(<<Lit("Access token set successfully.")>>),
                   <<gen, Call("set_access_token", <<o.value.access_token>>, EmptyDict,
                               token, Return(None))>>,
                   o.value.access_token)

\* place_order without exclude_none: unset optional fields are forwarded as None.
place_order_keeping_none(token, args, o) ==
    LET a == Construct(place_order_params, args)
        order_params == Dict(a.request, {}, FALSE)
        call == Call("place_order", <<>>, order_params, token, o)
    IN IF a = Invalid THEN Rejected(token)
       ELSE IF o.kind = "return"
            THEN Effect(Return(<<Lit("Order placed successfully. Order ID: ")>>
                               \o Format(o.value)), <<call>>, token)
            ELSE Effect(Raise("Exception", <<Lit("Failed to place order ")>>
                               \o Format(order_params) \o <<Lit(": ")>> \o StrOf(o)),
                        <<call>>, token)

place_order(token, args, o) ==
    LET a == Construct(place_order_params, args)
        order_params == Dict(a.request, {}, TRUE)
        call == Call("place_order", <<>>, order_params, token, o)
    IN IF a = Invalid THEN Rejected(token)
       ELSE IF o.kind = "return"
            THEN Effect(Return(<<Lit("Order placed successfully. Order ID: ")>>
                               \o Format(o.value)), <<call>>, token)
            ELSE Effect(Raise("Exception", <<Lit("Failed to place order ")>>
                               \o Format(order_params) \o <<Lit(": ")>> \o StrOf(o)),
                        <<call>>, token)

\* modify_order without exclude_none: unset optional fields are forwarded as None.
modify_order_keeping_none(token, args, o) ==
    LET a == Construct(modify_order_params, args)
        kw == ("variety" :> a.request.variety) @@ ("order_id" :> a.request.order_id)
              @@ Dict(a.request, {"variety", "order_id"}, FALSE)
        call == Call("modify_order", <<>>, kw, token, o)
    IN IF a = Invalid THEN Rejected(token)
       ELSE IF o.kind = "return"
            THEN Effect(Return(<<Lit("Order modified successfully. Order ID: ")>>
                               \o Format(o.value)), <<call>>, token)
            ELSE Effect(Raise("Exception", <<Lit("Failed to modify order: ")>> \o StrOf(o)),
                        <<call>>, token)

modify_order(token, args, o) ==
    LET a == Construct(modify_order_params, args)
        kw == ("variety" :> a.request.variety) @@ ("order_id" :> a.request.order_id)
              @@ Dict(a.request, {"variety", "order_id"}, TRUE)
        call == Call("modify_order", <<>>, kw, token, o)
    IN IF a = Invalid THEN Rejected(token)
       ELSE IF o.kind = "return"
            THEN Effect(Return(<<Lit("Order modified successfully. Order ID: ")>>
                               \o Format(o.value)), <<call>>, token)
            ELSE Effect(Raise("Exception", <<Lit("Failed to modify order: ")>> \o StrOf(o)),
                        <<call>>, token)

cancel_order(token, args, o) ==
    LET a == Construct(cancel_order_params, args)
        call == Call("cancel_order", <<a.variety, a.order_id, a.parent_order_id>>,
                     EmptyDict, token, o)
    IN IF a = Invalid THEN Rejected(token)
       ELSE IF o.kind = "return"
            THEN Effect(Return(<<Lit("Order cancelled successfully. Order ID: ")>>
                               \o Format(o.value)), <<call>>, token)
            ELSE Effect(Raise("Exception", <<Lit("Failed to cancel order: ")>> \o StrOf(o)),
                        <<call>>, token)

convert_position(token, args, o) ==
    LET a == Construct(convert_position_params, args)
        call == Call("convert_position", <<>>, Dict(a.request, {}, FALSE), token, o)
    IN IF a = Invalid THEN Rejected(token)
       ELSE IF o.kind = "return"
            THEN Effect(Return(<<Lit("Position converted successfully.")>>), <<call>>, token)
            ELSE Effect(Raise("Exception", <<Lit("Failed to convert position: ")>> \o StrOf(o)),
                        <<call>>, token)

place_gtt(token, args, o) ==
    LET a == Construct(place_gtt_params, args)
        call == Call("place_gtt", <<>>, Dict(a.request, {}, FALSE), token, o)
    IN IF a = Invalid THEN Rejected(token)
       ELSE IF o.kind = "return"
            THEN Effect(Return(<<Lit("GTT order placed successfully. Trigger ID: ")>>
                               \o Format(o.value)), <<call>>, token)
            ELSE Effect(Raise("Exception", <<Lit("Failed to place GTT order: ")>> \o StrOf(o)),
                        <<call>>, token)

modify_gtt(token, args, o) ==
    LET a == Construct(modify_gtt_params, args)
        kw == ("trigger_id" :> a.request.trigger_id)
              @@ Dict(a.request, {"trigger_id"}, FALSE)
        call == Call("modify_gtt", <<>>, kw, token, o)
    IN IF a = Invalid THEN Rejected(token)
       ELSE IF o.kind = "return"
            THEN Effect(Return(<<Lit("GTT order modified successfully. Trigger ID: ")>>
                               \o Format(o.value)), <<call>>, token)
            ELSE Effect(Raise("Exception", <<Lit("Failed to modify GTT order: ")>> \o StrOf(o)),
                        <<call>>, token)

\* delete_gtt whose failure message names the trigger.
delete_gtt_naming_trigger(token, args, o) ==
    LET a == Construct(delete_gtt_params, args)
        call == Call("delete_gtt", <<a.trigger_id>>, EmptyDict, token, o)
    IN IF a = Invalid THEN Rejected(token)
       ELSE IF o.kind = "return"
            THEN Effect(Return(<<Lit("GTT order deleted successfully.")>>), <<call>>, token)
            ELSE Effect(Raise("Exception", <<Lit("Failed to delete GTT order ")>>
                               \o Format(a.trigger_id) \o <<Lit(": ")>> \o StrOf(o)),
                        <<call>>, token)

delete_gtt(token, args, o) ==
    LET a == Construct(delete_gtt_params, args)
        call == Call("delete_gtt", <<a.trigger_id>>, EmptyDict, token, o)
    IN IF a = Invalid THEN Rejected(token)
       ELSE IF o.kind = "return"
            THEN Effect(Return(<<Lit("GTT order deleted successfully.")>>), <<call>>, token)
            ELSE Effect(Raise("Exception", <<Lit("Failed to delete GTT order: ")>> \o StrOf(o)),
                        <<call>>, token)

get_instrument_margins(token, args, o) ==
    LET a == Construct(get_instrument_margins_params, args)
    IN IF a = Invalid THEN Rejected(token)
       ELSE Guarded("margins", <<a.segment>>, EmptyDict,
                    "Failed to get instrument margins: ", token, o)

get_basket_margins(token, args, o) ==
    LET a == Construct(get_basket_margins_params, args)
        orders == ListV([i \in 1 .. Len(a.request.orders.list) |->
                            Dict(a.request.orders.list[i], {}, TRUE)])
    IN IF a = Invalid THEN Rejected(token)
       ELSE Guarded("basket_order_margins", <<orders>>,
                    [consider_positions |-> a.request.consider_positions,
                     mode |-> a.request.mode],
                    "Failed to get basket margins: ", token, o)

get_order_history(token, args, o) ==
    LET a == Construct(order_id_params, args)
    IN IF a = Invalid THEN Rejected(token)
       ELSE Guarded("order_history", <<a.order_id>>, EmptyDict,
                    "Failed to get order history: ", token, o)

get_order_trades(token, args, o) ==
    LET a == Construct(order_id_params, args)
    IN IF a = Invalid THEN Rejected(token)
       ELSE Guarded("order_trades", <<a.order_id>>, EmptyDict,
                    "Failed to get order trades: ", token, o)

get_quote(token, args, o) ==
    LET a == Construct(instruments_params, args)
    IN IF a = Invalid THEN Rejected(token)
       ELSE Guarded("quote", <<a.instruments>>, EmptyDict, "Failed to get quote: ", token, o)

get_ohlc(token, args, o) ==
    LET a == Construct(instruments_params, args)
    IN IF a = Invalid THEN Rejected(token)
       ELSE Guarded("ohlc", <<a.instruments>>, EmptyDict, "Failed to get OHLC: ", token, o)

get_ltp(token, args, o) ==
    LET a == Construct(instruments_params, args)
    IN IF a = Invalid THEN Rejected(token)
       ELSE Guarded("ltp", <<a.instruments>>, EmptyDict, "Failed to get LTP: ", token, o)

get_historical_data(token, args, o) ==
    LET a == Construct(get_historical_data_params, args)
    IN IF a = Invalid THEN Rejected(token)
       ELSE Guarded("historical_data",
                    <<a.instrument_token, a.from_date, a.to_date, a.interval,
                      a.continuous, a.oi>>,
                    EmptyDict, "Failed to get historical data: ", token, o)

----------------------------------------------------------------------------
(* The inputs the model draws. *)

Outcomes(values) == {Return(v) : v \in values} \cup KiteErrors

\* The same with a single failure, for the tools with many inputs.
FewOutcomes(values) ==
    {Return(v) : v \in values} \cup {Raise("OrderException", <<Lit("insufficient funds")>>)}

OrderIds == {StrV("151220000000000")}
TriggerIds == {[trigger_id |-> IntV(7)]}
Payloads == {[data |-> StrV("payload")]}

\* What generate_session may give back: sessions with a token, one without.
Sessions ==
    {[user_id |-> StrV("AB1234"), access_token |-> StrV("tokenA")],
     [user_id |-> StrV("AB1234"), access_token |-> StrV("tokenB")],
     [user_id |-> StrV("AB1234")]}

BaseOrder ==
    [variety |-> StrV("regular"), exchange |-> StrV("NSE"),
     tradingsymbol |-> StrV("INFY"), transaction_type |-> StrV("BUY"),
     quantity |-> IntV(10), product |-> StrV("CNC"), order_type |-> StrV("MARKET")]

PlaceOrderInputs ==
    {("order_type" :> StrV("LIMIT")) @@ ("quantity" :> IntV(q)) @@ p @@ BaseOrder :
        q \in -1 .. MaxQuantity,
        p \in {EmptyDict, [price |-> None], [price |-> IntV(100)]}}
    \cup {("quantity" :> IntV(q)) @@ BaseOrder : q \in -1 .. MaxQuantity}
    \cup {BaseOrder,
          Without(BaseOrder, {"quantity"}),
          ("variety" :> StrV("REGULAR")) @@ BaseOrder,
          [order_type |-> StrV("SL-M"), trigger_price |-> FloatV(95), tag |-> StrV("t1")]
              @@ BaseOrder,
          ("comment" :> StrV("not a field")) @@ BaseOrder,
          [quantity |-> StrV("5"), price |-> StrV("99")] @@ BaseOrder,
          ("quantity" :> BoolV(TRUE)) @@ BaseOrder,
          ("quantity" :> StrV("five")) @@ BaseOrder}

BaseModify == [variety |-> StrV("regular"), order_id |-> StrV("151220000000000")]

ModifyOrderInputs ==
    {p @@ q @@ BaseModify :
        p \in {EmptyDict, [price |-> None], [price |-> FloatV(101)]},
        q \in {EmptyDict, [quantity |-> IntV(5)]}}
    \cup {Without(BaseModify, {"order_id"}),
          ("validity" :> StrV("GTC")) @@ BaseModify,
          ("quantity" :> StrV("5")) @@ BaseModify,
          [order_type |-> StrV("SL"), trigger_price |-> IntV(99), price |-> IntV(100)]
              @@ BaseModify}

CancelOrderInputs ==
    {p @@ BaseModify : p \in {EmptyDict, [parent_order_id |-> StrV("151220000000001")]}}
    \cup {("variety" :> StrV("bracket")) @@ BaseModify}

BaseConvert ==
    [exchange |-> StrV("NSE"), tradingsymbol |-> StrV("INFY"),
     transaction_type |-> StrV("BUY"), position_type |-> StrV("day"),
     quantity |-> IntV(1), old_product |-> StrV("MIS"), new_product |-> StrV("CNC")]

ConvertPositionInputs ==
    {("quantity" :> IntV(q)) @@ BaseConvert : q \in -1 .. MaxQuantity}
    \cup {Without(BaseConvert, {"new_product"}),
          ("quantity" :> StrV("1")) @@ BaseConvert}

Leg(i) ==
    [transaction_type |-> StrV("SELL"), quantity |-> IntV(1),
     order_type |-> StrV("LIMIT"), product |-> StrV("CNC"), price |-> IntV(100 + i)]

Legs(n) == ListV([i \in 1 .. n |-> Leg(i)])
TriggerValues(n) == ListV([i \in 1 .. n |-> FloatV(100 + i)])

GTT(t, n, m) ==
    [trigger_type |-> StrV(t), tradingsymbol |-> StrV("INFY"), exchange |-> StrV("NSE"),
     trigger_values |-> TriggerValues(n), last_price |-> FloatV(100), orders |-> Legs(m)]

\* Leg counts that agree or differ by one.
LegCounts == {<<n, m>> \in (0 .. MaxLegs) \X (0 .. MaxLegs) : n - m \in -1 .. 1}

PlaceGTTInputs ==
    {GTT(t, c[1], c[2]) : t \in GTTType, c \in LegCounts}
    \cup {GTT("oco", 2, 2),
          ("last_price" :> StrV("100")) @@ GTT("single", 1, 1),
          ("orders" :> ListV(<<Without(Leg(1), {"price"})>>)) @@ GTT("single", 1, 1)}

TriggerIdInputs == {StrV("12345"), StrV("67890")}

ModifyGTTInputs ==
    {("trigger_id" :> StrV("12345")) @@ GTT(t, c[1], c[2]) :
        t \in GTTType, c \in {d \in LegCounts : d[2] \in 1 .. 2}}
    \cup {GTT("single", 1, 1)}

BasketOrders == {BaseOrder, ("quantity" :> IntV(0)) @@ BaseOrder}

\* The sequences over S of length 0 .. n
SeqsUpTo(S, n) == UNION {[1 .. k -> S] : k \in 0 .. n}

BasketInputs ==
    {[orders |-> ListV(os)] : os \in SeqsUpTo(BasketOrders, MaxBasket)}
    \cup {[orders |-> ListV(<<BaseOrder, ("exchange" :> StrV("NYSE")) @@ BaseOrder>>)],
          [orders |-> ListV(<<BaseOrder, [price |-> None] @@ BaseOrder>>),
           consider_positions |-> BoolV(FALSE), mode |-> StrV("compact")],
          [orders |-> ListV(<<BaseOrder>>), consider_positions |-> IntV(1)]}

SegmentInputs == {EmptyDict, [segment |-> StrV("equity")]}
OrderIdInputs == {[order_id |-> StrV("151220000000000")], EmptyDict}
InstrumentInputs ==
    {[instruments |-> ListV(<<StrV("NSE:INFY"), StrV("NSE:TCS")>>)],
     [instruments |-> StrV("NSE:INFY")]}
HistoricalInputs ==
    {c @@ [instrument_token |-> IntV(408065), from_date |-> StrV("2024-01-01"),
           to_date |-> StrV("2024-01-31"), interval |-> StrV(i)] :
        i \in {"day", "hour"}, c \in {EmptyDict, [continuous |-> BoolV(TRUE)]}}
    \cup {[instrument_token |-> StrV("5"), from_date |-> IntV(1704067200),
           to_date |-> StrV("2024-01-31T15:30:00"), interval |-> StrV("minute"),
           oi |-> StrV("true")]}

----------------------------------------------------------------------------
(* The state machine: one action per tool. *)

Init ==
    /\ API_KEY \in Getenv("KITE_API_KEY")
    /\ API_SECRET \in Getenv("KITE_API_SECRET")
    /\ access_token = None
    /\ api_key = API_KEY
    /\ op = "none"
    /\ request = EmptyDict
    /\ calls = <<>>
    /\ result = Return(None)

\* Tool name ran on args and did e.
Invoke(name, args, e) ==
    /\ op' = name
    /\ request' = args
    /\ result' = e.result
    /\ calls' = e.calls
    /\ access_token' = e.access_token
    /\ UNCHANGED <<API_KEY, API_SECRET>>

GetOrders ==
    \E o \in Outcomes(Payloads) :
        /\ Invoke("get_orders", EmptyDict, get_orders(access_token, EmptyDict, o))
        /\ UNCHANGED api_key

GetTrades ==
    \E o \in Outcomes(Payloads) :
        /\ Invoke("get_trades", EmptyDict, get_trades(access_token, EmptyDict, o))
        /\ UNCHANGED api_key

GetPositions ==
    \E o \in Outcomes(Payloads) :
        /\ Invoke("get_positions", EmptyDict, get_positions(access_token, EmptyDict, o))
        /\ UNCHANGED api_key

GetHoldings ==
    \E o \in Outcomes(Payloads) :
        /\ Invoke("get_holdings", EmptyDict, get_holdings(access_token, EmptyDict, o))
        /\ UNCHANGED api_key

GetMargins ==
    \E args \in SegmentInputs, o \in Outcomes(Payloads) :
        /\ Invoke("get_margins", args, get_margins(access_token, args, o))
        /\ UNCHANGED api_key

GetProfile ==
    \E o \in Outcomes(Payloads) :
        /\ Invoke("get_profile", EmptyDict, get_profile(access_token, EmptyDict, o))
        /\ UNCHANGED api_key

LoginUrl ==
    \E o \in Outcomes({StrV("https://kite.zerodha.com/connect/login")}) :
        /\ Invoke("login_url", EmptyDict, login_url(access_token, EmptyDict, o))
        /\ api_key' = API_KEY

SetAccessToken ==
    \E o \in Outcomes(Sessions) :
        LET args == [request_token |-> StrV("request-token")]
        IN /\ Invoke("set_access_token", args, set_access_token(access_token, args, o))
           /\ UNCHANGED api_key

PlaceOrder ==
    \E raw \in PlaceOrderInputs, o \in Outcomes(OrderIds) :
        /\ Invoke("place_order", [request |-> raw],
                  place_order(access_token, [request |-> raw], o))
        /\ UNCHANGED api_key

ModifyOrder ==
    \E raw \in ModifyOrderInputs, o \in Outcomes(OrderIds) :
        /\ Invoke("modify_order", [request |-> raw],
                  modify_order(access_token, [request |-> raw], o))
        /\ UNCHANGED api_key

CancelOrder ==
    \E args \in CancelOrderInputs, o \in Outcomes(OrderIds) :
        /\ Invoke("cancel_order", args, cancel_order(access_token, args, o))
        /\ UNCHANGED api_key

ConvertPosition ==
    \E raw \in ConvertPositionInputs, o \in Outcomes({BoolV(TRUE)}) :
        /\ Invoke("convert_position", [request |-> raw],
                  convert_position(access_token, [request |-> raw], o))
        /\ UNCHANGED api_key

PlaceGtt ==
    \E raw \in PlaceGTTInputs, o \in FewOutcomes(TriggerIds) :
        /\ Invoke("place_gtt", [request |-> raw],
                  place_gtt(access_token, [request |-> raw], o))
        /\ UNCHANGED api_key

ModifyGtt ==
    \E raw \in ModifyGTTInputs, o \in FewOutcomes(TriggerIds) \cup TriggerErrors :
        /\ Invoke("modify_gtt", [request |-> raw],
                  modify_gtt(access_token, [request |-> raw], o))
        /\ UNCHANGED api_key

DeleteGtt ==
    \E t \in TriggerIdInputs, o \in Outcomes(TriggerIds) \cup TriggerErrors :
        /\ Invoke("delete_gtt", [trigger_id |-> t],
                  delete_gtt(access_token, [trigger_id |-> t], o))
        /\ UNCHANGED api_key

GetInstrumentMargins ==
    \E args \in SegmentInputs, o \in Outcomes(Payloads) :
        /\ Invoke("get_instrument_margins", args,
                  get_instrument_margins(access_token, args, o))
        /\ UNCHANGED api_key

GetBasketMargins ==
    \E raw \in BasketInputs, o \in FewOutcomes(Payloads) :
        /\ Invoke("get_basket_margins", [request |-> raw],
                  get_basket_margins(access_token, [request |-> raw], o))
        /\ UNCHANGED api_key

GetOrderHistory ==
    \E args \in OrderIdInputs, o \in Outcomes(Payloads) :
        /\ Invoke("get_order_history", args, get_order_history(access_token, args, o))
        /\ UNCHANGED api_key

GetOrderTrades ==
    \E args \in OrderIdInputs, o \in Outcomes(Payloads) :
        /\ Invoke("get_order_trades", args, get_order_trades(access_token, args, o))
        /\ UNCHANGED api_key

GetQuote ==
    \E args \in InstrumentInputs, o \in Outcomes(Payloads) :
        /\ Invoke("get_quote", args, get_quote(access_token, args, o))
        /\ UNCHANGED api_key

GetOhlc ==
    \E args \in InstrumentInputs, o \in Outcomes(Payloads) :
        /\ Invoke("get_ohlc", args, get_ohlc(access_token, args, o))
        /\ UNCHANGED api_key

GetLtp ==
    \E args \in InstrumentInputs, o \in Outcomes(Payloads) :
        /\ Invoke("get_ltp", args, get_ltp(access_token, args, o))
        /\ UNCHANGED api_key

GetHistoricalData ==
    \E args \in HistoricalInputs, o \in Outcomes(Payloads) :
        /\ Invoke("get_historical_data", args,
                  get_historical_data(access_token, args, o))
        /\ UNCHANGED api_key

Next ==
    \/ GetOrders
    \/ GetTrades
    \/ GetPositions
    \/ GetHoldings
    \/ GetMargins
    \/ GetProfile
    \/ LoginUrl
    \/ SetAccessToken
    \/ PlaceOrder
    \/ ModifyOrder
    \/ CancelOrder
    \/ ConvertPosition
    \/ PlaceGtt
    \/ ModifyGtt
    \/ DeleteGtt
    \/ GetInstrumentMargins
    \/ GetBasketMargins
    \/ GetOrderHistory
    \/ GetOrderTrades
    \/ GetQuote
    \/ GetOhlc
    \/ GetLtp
    \/ GetHistoricalData

Spec == Init /\ [][Next]_vars

----------------------------------------------------------------------------
(* The claims. *)

AuthMethods == {"login_url", "generate_session", "set_access_token"}
AuthTools == {"login_url", "set_access_token"}

\* The invocation's arguments did not validate.
WasRejected == result = ValidationError

\* Field f is missing from raw or explicitly null.
Unset(raw, f) == f \notin DOMAIN raw \/ raw[f] = None

\* Some collaborator call of the invocation raised.
CollaboratorRaised == \E i \in 1 .. Len(calls) : calls[i].outcome.kind = "raise"

\* C1: a place_order request with order_type LIMIT is rejected when price is
\* absent, without any collaborator call, and is accepted when price is
\* present (a number) and quantity > 0.
C1_LimitRequiresPrice ==
    (op = "place_order" /\ ~Unset(request.request, "order_type")
        /\ request.request.order_type = StrV("LIMIT"))
    => /\ Unset(request.request, "price") => (WasRejected /\ calls = <<>>)
       /\ (~Unset(request.request, "price") /\ ~Unset(request.request, "quantity")
             /\ Coerce(TFloat, request.request.price) # Invalid
             /\ Coerce(TInt, request.request.quantity) # Invalid
             /\ Coerce(TInt, request.request.quantity).int > 0) => ~WasRejected

\* C2: every place_gtt / modify_gtt call that reaches the collaborator carries
\* as many orders as trigger values: exactly 2 of each when trigger_type is
\* two-leg, exactly 1 of each when it is single.
C2_GttLegCounts ==
    \A i \in 1 .. Len(calls) :
        calls[i].method \in {"place_gtt", "modify_gtt"} =>
            LET kw == calls[i].kw
                n == IF kw.trigger_type = StrV("two-leg") THEN 2 ELSE 1
            IN /\ Len(kw.orders.list) = Len(kw.trigger_values.list)
               /\ Len(kw.orders.list) = n

\* C3: every order that place_order, get_basket_margins or convert_position
\* forwards to the collaborator has quantity > 0.
C3_ForwardedQuantityPositive ==
    \A i \in 1 .. Len(calls) :
        /\ calls[i].method \in {"place_order", "convert_position"} =>
                calls[i].kw.quantity.int > 0
        /\ calls[i].method = "basket_order_margins" =>
                \A j \in 1 .. Len(calls[i].pos[1].list) :
                    calls[i].pos[1].list[j].quantity.int > 0

\* C4: modify_order forwards, as keyword arguments of one modify_order call,
\* exactly variety, order_id and the optional fields the request sets (each
\* with the request's validated value); an unset optional field is not
\* forwarded, so a request of only order_id, variety and price forwards
\* exactly these three.
C4_ModifyForwardsOnlyProvided ==
    (op = "modify_order" /\ ~WasRejected) =>
        LET raw == request.request
            provided == {f \in DOMAIN ModifyOrderRequestFields : ~Unset(raw, f)}
        IN /\ Len(calls) = 1
           /\ calls[1].method = "modify_order"
           /\ calls[1].pos = <<>>
           /\ {"variety", "order_id"} \subseteq provided
           /\ DOMAIN calls[1].kw = provided
           /\ \A f \in provided :
                calls[1].kw[f] = Coerce(ModifyOrderRequestFields[f].type, raw[f])

C4_Witness ==
    /\ op = "modify_order"
    /\ DOMAIN request.request = {"variety", "order_id", "price"}
    /\ request.request.price = FloatV(101)
    /\ Len(calls) = 1
    /\ DOMAIN calls[1].kw = {"variety", "order_id", "price"}

SevenFields ==
    {"variety", "exchange", "tradingsymbol", "transaction_type", "quantity",
     "product", "order_type"}

\* C5: place_order on a request of only the 7 required fields (order_type
\* MARKET) forwards exactly those 7 fields, each with its validated value; and when the collaborator raises,
\* place_order fails with a message that contains "Failed to place order ",
\* the forwarded parameter set and the collaborator's failure text.
C5_PlaceOrderForwardAndFailure ==
    (op = "place_order" /\ ~WasRejected) =>
        /\ Len(calls) = 1
        /\ calls[1].method = "place_order"
        /\ (DOMAIN request.request = SevenFields
              /\ request.request.order_type = StrV("MARKET"))
            => /\ DOMAIN calls[1].kw = SevenFields
               /\ \A f \in SevenFields :
                    calls[1].kw[f] = Coerce(PlaceOrderRequestFields[f].type,
                                            request.request[f])
        /\ calls[1].outcome.kind = "raise" =>
            /\ result.kind = "raise"
            /\ Contains(result.message, <<Lit("Failed to place order ")>>)
            /\ Contains(result.message, <<Repr(calls[1].kw)>>)
            /\ Contains(result.message, calls[1].outcome.message)

C5_Witness ==
    /\ op = "place_order"
    /\ request.request = BaseOrder
    /\ Len(calls) = 1
    /\ DOMAIN calls[1].kw = SevenFields
    /\ calls[1].outcome = Raise("OrderException", <<Lit("insufficient funds")>>)
    /\ result.kind = "raise"

\* C6: whenever the collaborator raises in an invocation of any tool, the
\* tool fails with the uniform wrapper: an Exception whose message is a
\* summary that embeds the collaborator's failure text.
C6_EveryFailureWrapped ==
    \A i \in 1 .. Len(calls) :
        calls[i].outcome.kind = "raise" =>
            /\ result.kind = "raise"
            /\ result.exc = "Exception"
            /\ Len(result.message) > Len(calls[i].outcome.message)
            /\ Contains(result.message, calls[i].outcome.message)

\* C7: no tool other than login_url and set_access_token reaches the
\* collaborator while the session holds no access token.
C7_NoCallBeforeToken ==
    \A i \in 1 .. Len(calls) :
        calls[i].method \notin AuthMethods => calls[i].access_token # None

\* C8 as stated: delete_gtt returns one fixed confirmation on success, and on
\* a collaborator failure fails with an error that names the trigger_id passed in.
C8_DeleteGttFailureNamesTrigger ==
    (op = "delete_gtt" /\ ~WasRejected) =>
        /\ calls[1].outcome.kind = "return" =>
                result = Return(<<Lit("GTT order deleted successfully.")>>)
        /\ calls[1].outcome.kind = "raise" =>
                /\ result.kind = "raise"
                /\ Contains(result.message, <<Lit(request.trigger_id.str)>>)

\* C8 (amended): delete_gtt returns one fixed confirmation on success, the
\* same for every trigger_id; on a collaborator failure it fails with an
\* Exception whose message is "Failed to delete GTT order: " followed by the
\* collaborator's failure text and nothing else, so the message names the
\* trigger_id only when the collaborator's text does.
C8_DeleteGttMessages ==
    (op = "delete_gtt" /\ ~WasRejected) =>
        /\ Len(calls) = 1
        /\ calls[1].pos = <<request.trigger_id>>
        /\ calls[1].outcome.kind = "return" =>
                result = Return(<<Lit("GTT order deleted successfully.")>>)
        /\ calls[1].outcome.kind = "raise" =>
                /\ result = Raise("Exception", <<Lit("Failed to delete GTT order: ")>>
                                               \o calls[1].outcome.message)
                /\ Contains(result.message, <<Lit(request.trigger_id.str)>>)
                     <=> Contains(calls[1].outcome.message, <<Lit(request.trigger_id.str)>>)

C8_Witness ==
    /\ op = "delete_gtt"
    /\ request.trigger_id = StrV("12345")
    /\ Len(calls) = 1
    /\ calls[1].outcome = Raise("OrderException", <<Lit("insufficient funds")>>)
    /\ result.kind = "raise"
    /\ ~Contains(result.message, <<Lit("12345")>>)

\* C9: an invocation of a tool other than login_url and set_access_token makes
\* no collaborator call when its arguments do not validate and exactly one
\* when they do; when that call raises, the invocation fails at once, with
\* no second call.
C9_ExactlyOneCall ==
    (op \notin AuthTools \cup {"none"}) =>
        /\ WasRejected => calls = <<>>
        /\ ~WasRejected =>
            /\ Len(calls) = 1
            /\ calls[1].outcome.kind = "raise" => result.kind = "raise"

C9_Witness ==
    /\ op = "get_basket_margins"
    /\ Len(request.request.orders.list) = 2
    /\ Len(calls) = 1
    /\ calls[1].outcome.kind = "raise"
    /\ result.kind = "raise"

SuccessMessage == Return(<<Lit("Access token set successfully.")>>)

\* C10: the session token changes only in a set_access_token invocation that
\* returns the success message; when generate_session raises, the token is
\* left as it was and the invocation fails; and the success message is
\* returned only with the token equal to the one that session generation gave.
C10_TokenOnlyAfterSession ==
    [][/\ access_token' # access_token => (op' = "set_access_token" /\ result' = SuccessMessage)
       /\ (op' = "set_access_token" /\ CollaboratorRaised') =>
            (access_token' = access_token /\ result'.kind = "raise")
       /\ (op' = "set_access_token" /\ result' = SuccessMessage) =>
            /\ calls'[1].method = "generate_session"
            /\ calls'[1].outcome.kind = "return"
            /\ access_token' = calls'[1].outcome.value.access_token]_vars

C10_Witness ==
    /\ op = "set_access_token"
    /\ result = SuccessMessage
    /\ calls[1].outcome.value.access_token = StrV("tokenB")
    /\ calls[1].access_token = StrV("tokenA")
    /\ access_token = StrV("tokenB")

====
